---- MODULE Spec2Model ----
(***************************************************************************)
(* Model of src/src/lib.rs: the type Uint<BITS, LIMBS>, its constants      *)
(* ZERO, MIN, MAX, its limb constructors and views, and the helper         *)
(* functions nlimbs and mask.                                              *)
(*                                                                         *)
(* A u64 is modelled as the set of its set bit positions, a subset of      *)
(* 0 .. 63 (bit 0 is the least significant bit), because TLC's integers    *)
(* are narrower than 64 bits.  A usize is an integer in 0 .. 2^UsizeBits-1.*)
(* A limb array [u64; N] is a sequence of length N; Rust index i is        *)
(* sequence index i + 1.                                                   *)
(***************************************************************************)
EXTENDS Integers, Sequences, FiniteSets, TLC

VARIABLES BITS, LIMBS, overflow_checks, val, op, arg, ret, bits, fn, fn_ret

vars == <<BITS, LIMBS, overflow_checks, val, op, arg, ret, bits, fn, fn_ret>>

(* ------------------------------ machine words -------------------------- *)

\* Width of a limb, the u64 of `limbs: [u64; LIMBS]`.
LimbBits == 64

\* Width of usize.  It is target-defined (16, 32 or 64 bits); the model takes
\* the narrowest, which keeps the top of the usize range within TLC's
\* integers.  64 divides 2^UsizeBits at every width, so bits + 63 overflows
\* for exactly the top 63 values of the range at every width.
UsizeBits == 16

UsizeMax == 2^UsizeBits - 1

\* u64::MAX and 0u64 as bit sets.
U64Max == 0 .. (LimbBits - 1)
U64Zero == {}

\* Largest element of a non-empty set of naturals.
MaxOf(S) == CHOOSE x \in S : \A y \in S : y <= x
MinOf(S) == CHOOSE x \in S : \A y \in S : x <= y

\* a <= b on u64: equal, or the highest bit where they differ is set in b.
Leq(a, b) ==
    LET d == (a \ b) \cup (b \ a)
    IN  d = {} \/ MaxOf(d) \in b

\* a & b on u64.
And(a, b) == a \cap b

\* Results of machine arithmetic: ok = FALSE is an arithmetic overflow
\* panic (a compile error when it happens in const evaluation).  Whether an
\* overflow in a fn body panics or wraps depends on the build
\* (overflow_checks: on in debug builds, off in release builds).
OkUsize(v) == [ok |-> TRUE, v |-> v]
OvfUsize == [ok |-> FALSE, v |-> 0]
OkU64(v) == [ok |-> TRUE, v |-> v]
OvfU64 == [ok |-> FALSE, v |-> {}]

\* a + b on usize.  With overflow checks the overflow panics; without them
\* the sum wraps modulo 2^UsizeBits.
AddUsize(a, b) ==
    IF a + b <= UsizeMax THEN OkUsize(a + b)
    ELSE IF overflow_checks THEN OvfUsize
    ELSE OkUsize((a + b) % (2^UsizeBits))

\* a - b on usize, same overflow behaviour.
SubUsize(a, b) ==
    IF a - b >= 0 THEN OkUsize(a - b)
    ELSE IF overflow_checks THEN OvfUsize
    ELSE OkUsize((a - b) % (2^UsizeBits))

\* 1u64 << n: overflows when the shift amount reaches the width.
Shl1(n) == IF n < LimbBits THEN OkU64({n}) ELSE OvfU64

\* x - 1 on u64: borrows through the low zero bits; overflows on 0.
Sub1(x) ==
    IF ~x.ok \/ x.v = {} THEN OvfU64
    ELSE LET k == MinOf(x.v) IN OkU64((x.v \ {k}) \cup (0 .. (k - 1)))

(* ------------------------------ nlimbs, mask --------------------------- *)

\* pub const fn nlimbs(bits: usize) -> usize { (bits + 63) / 64 }
nlimbs(b) ==
    LET s == AddUsize(b, 63)
    IN  IF s.ok THEN OkUsize(s.v \div 64) ELSE OvfUsize

\* mask without the special case of a full top limb: (1 << 0) - 1 = 0.
mask_unguarded(b) ==
    IF b = 0 THEN OkU64(U64Zero) ELSE Sub1(Shl1(b % 64))

\* const fn mask(bits: usize) -> u64
mask(b) ==
    IF b = 0 THEN OkU64(U64Zero)
    ELSE LET r == b % 64
         IN  IF r = 0 THEN OkU64(U64Max) ELSE Sub1(Shl1(r))

(* ------------------------------ the type Uint -------------------------- *)

\* pub const LIMBS: usize = nlimbs(BITS);
SelfLIMBS == nlimbs(BITS)

\* const MASK: u64 = mask(BITS);
MASK == mask(BITS)

\* Outcome of an operation: a value of the type, or a fatal failure (a
\* panic; a compile error when the failing code is evaluated in a const).
Value(l) == [kind |-> "value", msg |-> "", limbs |-> l]
Panic(m) == [kind |-> "panic", msg |-> m, limbs |-> <<>>]

MsgLimbs == "Can not construct Uint<BITS, LIMBS> with incorrect LIMBS"
MsgValue == "Value too large for this Uint"
MsgAdd == "attempt to add with overflow"
MsgSub == "attempt to subtract with overflow"
MsgIndex == "index out of bounds"
MsgCopy == "source slice length does not match destination slice length"

\* [x; n]
Repeat(x, n) == [i \in 1 .. n |-> x]

\* ZERO filled with a non-zero limb.
ZERO_ones == Value(Repeat({0}, LIMBS))

\* pub const ZERO: Self = Self { limbs: [0; LIMBS] };
ZERO == Value(Repeat(U64Zero, LIMBS))

\* pub const MIN: Self = Self::ZERO;
MIN == ZERO

\* MAX without the masking of the top limb.
MAX_unmasked == Value(Repeat(U64Max, LIMBS))

\* pub const MAX: Self.  The body is a const, so LIMBS - 1 is always checked.
MAX ==
    LET filled == Repeat(U64Max, LIMBS)
    IN  IF BITS > 0
        THEN IF LIMBS - 1 < 0 THEN Panic(MsgSub)
             ELSE IF ~MASK.ok THEN Panic(MsgSub)
             ELSE Value([filled EXCEPT ![LIMBS] = And(@, MASK.v)])
        ELSE Value(filled)

\* const fn assert_valid(): the message of its failure, "" when it returns.
assert_valid ==
    IF ~SelfLIMBS.ok THEN MsgAdd
    ELSE IF LIMBS # SelfLIMBS.v THEN MsgLimbs
    ELSE ""

\* The index Self::LIMBS - 1 of the array read in from_limbs.
TopIndex == SubUsize(SelfLIMBS.v, 1)

\* from_limbs without the check of the top limb against the mask.
from_limbs_unchecked(limbs) ==
    IF assert_valid # "" THEN Panic(assert_valid) ELSE Value(limbs)

\* pub const fn from_limbs(limbs: [u64; LIMBS]) -> Self
from_limbs(limbs) ==
    IF assert_valid # "" THEN Panic(assert_valid)
    ELSE IF BITS > 0
    THEN LET idx == TopIndex
         IN  IF ~idx.ok THEN Panic(MsgSub)
             ELSE IF idx.v >= Len(limbs) THEN Panic(MsgIndex)
             ELSE IF ~MASK.ok THEN Panic(MsgSub)
             ELSE IF ~Leq(limbs[idx.v + 1], MASK.v) THEN Panic(MsgValue)
             ELSE Value(limbs)
    ELSE Value(limbs)

\* dst.copy_from_slice(src): ok = FALSE is its panic on a length mismatch.
copy_from_slice(dst, src) ==
    IF Len(src) # Len(dst) THEN [ok |-> FALSE, v |-> dst]
    ELSE [ok |-> TRUE, v |-> [i \in 1 .. Len(dst) |-> src[i]]]

\* from_limbs_slice that truncates or zero-pads instead of failing.
from_limbs_slice_padded(slice) ==
    IF ~SelfLIMBS.ok THEN Panic(MsgAdd)
    ELSE from_limbs([i \in 1 .. LIMBS |->
                        IF i <= Len(slice) THEN slice[i] ELSE U64Zero])

\* pub fn from_limbs_slice(slice: &[u64]) -> Self.  The function refers to
\* the const Self::LIMBS through from_limbs, and a const is evaluated when
\* the function is instantiated, not in program order: when that evaluation
\* overflows the function fails for every slice, before any copy.
from_limbs_slice(slice) ==
    IF ~SelfLIMBS.ok THEN Panic(MsgAdd)
    ELSE LET copied == copy_from_slice(Repeat(U64Zero, LIMBS), slice)
         IN  IF ~copied.ok THEN Panic(MsgCopy) ELSE from_limbs(copied.v)

\* impl Default: fn default() -> Self { Self::ZERO }
default == ZERO

\* pub const fn as_limbs(&self) -> &[u64; LIMBS]
as_limbs(self) == self.limbs

\* pub const fn into_limbs(self) -> [u64; LIMBS]
into_limbs(self) == self.limbs

\* pub fn as_limbs_mut(&mut self) -> &mut [u64; LIMBS], followed by the
\* caller's write of x to element i of the returned reference.
as_limbs_mut(self, i, x) == [self EXCEPT !.limbs[i + 1] = x]

(* ------------------------------ inputs --------------------------------- *)

\* Types are instantiated with BITS in 0 .. MaxBits and with the widths at
\* the top of the usize range.
MaxBits == 66

\* ceil(n / 64) in unbounded integers.
Ceil64(n) == (n + 63) \div 64

TopBits == {UsizeMax - 63, UsizeMax - 62, UsizeMax}
BitsVals == (0 .. MaxBits) \cup TopBits

\* The LIMBS parameters tried with width b: the matching count, its two
\* neighbours and 0.
LimbsVals(b) ==
    {0, Ceil64(b) - 1, Ceil64(b), Ceil64(b) + 1} \cap (0 .. UsizeMax)

\* The u64 values offered as limbs of a type of width b: 0, u64::MAX, the
\* largest value with no bit at or above b % 64 and the smallest value with
\* such a bit.
LimbVals(b) == {U64Zero, U64Max, 0 .. ((b % 64) - 1), {b % 64}}

\* Limb arrays of length n with one value in the top limb and one value in
\* all the others.
Pattern(n, b) ==
    {[i \in 1 .. n |-> IF i = n THEN t ELSE x] :
        t \in LimbVals(b), x \in {U64Zero, U64Max}}

\* Limb arrays of length n: every array over LimbVals for the short
\* lengths, the pattern arrays for the long ones.
Arrays(n, b) ==
    IF n <= Ceil64(MaxBits) THEN [1 .. n -> LimbVals(b)] ELSE Pattern(n, b)

\* Slices: the arrays of the right length and slices one shorter and one
\* longer.
Slices(n, b) ==
    Arrays(n, b) \cup Pattern(n + 1, b)
        \cup (IF n > 0 THEN Pattern(n - 1, b) ELSE {})

\* Element indices written through as_limbs_mut: every index of a short
\* array, the top index of a long one.
WriteIndices(n) ==
    IF n <= Ceil64(MaxBits) THEN 0 .. (n - 1) ELSE {n - 1}

\* Arguments of the direct calls of nlimbs and mask.
FnArgs == (0 .. MaxBits) \cup ((UsizeMax - MaxBits) .. UsizeMax)

(* ------------------------------ state machine -------------------------- *)

NoVal == [live |-> FALSE, limbs |-> <<>>]
NoRet == [kind |-> "none", msg |-> "", limbs |-> <<>>]
Live(l) == [live |-> TRUE, limbs |-> l]

\* The live value left by a construction with outcome o.
Bind(o) == IF o.kind = "value" THEN Live(o.limbs) ELSE NoVal

TypeFixed == UNCHANGED <<BITS, LIMBS, overflow_checks>>
FnFixed == UNCHANGED <<bits, fn, fn_ret>>

Init ==
    /\ BITS \in BitsVals
    /\ LIMBS \in LimbsVals(BITS)
    /\ overflow_checks \in BOOLEAN
    /\ val = NoVal
    /\ op = "none"
    /\ arg = <<>>
    /\ ret = NoRet
    /\ bits = 0
    /\ fn = "none"
    /\ fn_ret = OkUsize(0)

Construct(name, input, o) ==
    /\ op' = name
    /\ arg' = input
    /\ ret' = o
    /\ val' = Bind(o)
    /\ TypeFixed
    /\ FnFixed

Zero == Construct("ZERO", <<>>, ZERO)

Min == Construct("MIN", <<>>, MIN)

Max == Construct("MAX", <<>>, MAX)

Default == Construct("default", <<>>, default)

FromLimbs ==
    \E l \in Arrays(LIMBS, BITS) : Construct("from_limbs", l, from_limbs(l))

FromLimbsSlice ==
    \E s \in Slices(LIMBS, BITS) :
        Construct("from_limbs_slice", s, from_limbs_slice(s))

AsLimbs ==
    /\ val.live
    /\ op' = "as_limbs"
    /\ arg' = <<>>
    /\ ret' = Value(as_limbs(val))
    /\ UNCHANGED val
    /\ TypeFixed
    /\ FnFixed

IntoLimbs ==
    /\ val.live
    /\ op' = "into_limbs"
    /\ arg' = <<>>
    /\ ret' = Value(into_limbs(val))
    /\ UNCHANGED val
    /\ TypeFixed
    /\ FnFixed

AsLimbsMut ==
    /\ val.live
    /\ \E i \in WriteIndices(LIMBS), x \in LimbVals(BITS) :
          /\ val' = as_limbs_mut(val, i, x)
          /\ ret' = Value(val'.limbs)
    /\ op' = "as_limbs_mut"
    /\ arg' = <<>>
    /\ TypeFixed
    /\ FnFixed

Next ==
    \/ Zero
    \/ Min
    \/ Max
    \/ Default
    \/ FromLimbs
    \/ FromLimbsSlice
    \/ AsLimbs
    \/ IntoLimbs
    \/ AsLimbsMut

Spec == Init /\ [][Next]_vars

\* The helper functions applied to arguments drawn by the initial state.
InitFn ==
    /\ bits \in FnArgs
    /\ overflow_checks \in BOOLEAN
    /\ fn = "none"
    /\ fn_ret = OkUsize(0)
    /\ BITS = 0
    /\ LIMBS = 0
    /\ val = NoVal
    /\ op = "none"
    /\ arg = <<>>
    /\ ret = NoRet

CallNlimbs ==
    /\ fn' = "nlimbs"
    /\ fn_ret' = nlimbs(bits)
    /\ UNCHANGED <<BITS, LIMBS, overflow_checks, val, op, arg, ret, bits>>

CallMask ==
    /\ fn' = "mask"
    /\ fn_ret' = mask(bits)
    /\ UNCHANGED <<BITS, LIMBS, overflow_checks, val, op, arg, ret, bits>>

NextFn == CallNlimbs \/ CallMask

SpecFn == InitFn /\ [][NextFn]_vars

(* ------------------------------ properties ---------------------------- *)

\* The limb count and the top-limb mask as the specification states them.
Matched == LIMBS = Ceil64(BITS)
SpecMask(b) == IF b = 0 THEN {} ELSE 0 .. ((b - 1) % 64)

\* Bit p of the number that the little-endian limb sequence l represents.
BitSet(l, p) == (p % LimbBits) \in l[(p \div LimbBits) + 1]

\* A top limb with a bit at or above BITS mod 64, when BITS mod 64 # 0.
TooLarge(l) ==
    /\ BITS % 64 # 0
    /\ \E k \in l[Len(l)] : k >= BITS % 64

ConstructOps ==
    {"ZERO", "MIN", "MAX", "default", "from_limbs", "from_limbs_slice"}

\* C1: every live value of a type with BITS > 0 and LIMBS = ceil(BITS/64)
\* has no bit at position >= BITS set in its most-significant limb, after
\* any sequence of the public operations, writes through as_limbs_mut
\* included.
C1_CanonicalAlways ==
    (val.live /\ BITS > 0 /\ Matched) => val.limbs[LIMBS] \subseteq SpecMask(BITS)

\* C2: for a type with BITS > 0 and LIMBS = ceil(BITS/64), from_limbs(l)
\* fails fatally exactly when the top limb of l has a bit at or above
\* BITS mod 64 (never when BITS mod 64 = 0), and otherwise returns the value
\* with limbs l.
C2_FromLimbsIff ==
    (op = "from_limbs" /\ BITS > 0 /\ Matched) =>
        /\ ret.kind = "panic" <=> TooLarge(arg)
        /\ ~TooLarge(arg) => ret = Value(arg)

\* C3: with LIMBS = ceil(BITS/64), MAX has the numeric value 2^BITS - 1: its
\* bits 0 .. BITS-1 are set and no others, every limb below the top
\* is 2^64-1, the top limb is 2^(BITS mod 64) - 1, or 2^64-1 when BITS is a
\* positive multiple of 64, and for BITS = 0 MAX is the empty value ZERO.
C3_MaxValue ==
    (op = "MAX" /\ Matched) =>
        /\ ret.kind = "value"
        /\ Len(ret.limbs) = LIMBS
        /\ \A p \in 0 .. (LimbBits * LIMBS - 1) :
              BitSet(ret.limbs, p) <=> p < BITS
        /\ \A i \in 1 .. LIMBS :
              ret.limbs[i] = IF i < LIMBS \/ BITS % 64 = 0
                             THEN U64Max
                             ELSE 0 .. ((BITS % 64) - 1)
        /\ BITS = 0 => ret.limbs = <<>>

C3_Witness ==
    /\ op = "MAX"
    /\ Matched
    /\ LIMBS = 2
    /\ BITS % 64 = 1
    /\ ret.kind = "value"

\* C4: for a type with LIMBS # ceil(BITS/64), no construction operation
\* (from_limbs, from_limbs_slice, ZERO, MIN, MAX, default) yields a live
\* value.
C4_MismatchFailsFast ==
    (op \in ConstructOps /\ ~Matched) => (ret.kind # "value" /\ ~val.live)

\* C5: from_limbs_slice fails for every slice whose length is not LIMBS, and
\* for a slice of length LIMBS its outcome is that of from_limbs on the
\* array with the same elements: the same failure, or the value whose limbs
\* equal the slice.
C5_SliceAsFromLimbs ==
    (op = "from_limbs_slice") =>
        /\ Len(arg) # LIMBS => ret.kind = "panic"
        /\ Len(arg) = LIMBS => ret = from_limbs(arg)
        /\ ret.kind = "value" => ret.limbs = arg

C5_Witness ==
    /\ op = "from_limbs_slice"
    /\ Matched
    /\ LIMBS = 2
    /\ Len(arg) = LIMBS
    /\ arg[1] = U64Max
    /\ ret.kind = "value"
    /\ val = Live(arg)

\* C6, as stated: construction halts fatally only for a wrong limb count.
\* When the limb count is right (LIMBS = ceil(BITS/64), and assert_valid
\* returns) and the array or slice has LIMBS elements, no limb values make
\* from_limbs or from_limbs_slice halt.
C6_HaltOnlyOnLimbCount ==
    (/\ op \in {"from_limbs", "from_limbs_slice"}
     /\ Matched
     /\ assert_valid = ""
     /\ Len(arg) = LIMBS) => ret.kind # "panic"

\* C6, amended: the failures that depend on the data passed in are
\* unrecoverable halts too.  A slice whose length is not LIMBS halts
\* from_limbs_slice (with the panic of copy_from_slice whenever Self::LIMBS
\* can be evaluated), a top limb with a bit at or above BITS mod 64 halts
\* from_limbs and from_limbs_slice with "Value too large for this Uint" when
\* the limb count is right, and every outcome is a value or a halt, never a
\* recoverable error.
C6_DataFailuresHalt ==
    (op \in {"from_limbs", "from_limbs_slice"}) =>
        /\ ret.kind \in {"value", "panic"}
        /\ Len(arg) # LIMBS =>
              /\ ret.kind = "panic"
              /\ SelfLIMBS.ok => ret = Panic(MsgCopy)
        /\ (Len(arg) = LIMBS /\ LIMBS > 0 /\ TooLarge(arg)) =>
              ret.kind = "panic"
        /\ (Len(arg) = LIMBS /\ LIMBS > 0 /\ TooLarge(arg)
              /\ assert_valid = "" /\ LIMBS = Ceil64(BITS)) =>
              ret = Panic(MsgValue)

C6_Witness ==
    /\ op = "from_limbs"
    /\ BITS = 7
    /\ LIMBS = 1
    /\ arg = <<{7}>>
    /\ ret = Panic(MsgValue)
    /\ ~val.live

\* C7: nlimbs(bits) = ceil(bits/64) for every bits of the usize range, the
\* values within 63 of the maximum included.
C7_NlimbsIsCeil ==
    (fn = "nlimbs") => (fn_ret.ok /\ fn_ret.v = Ceil64(bits))

\* C8: with LIMBS = ceil(BITS/64), ZERO is a value of LIMBS limbs that are
\* all 0, and MIN and the default value are that same value.
C8_ZeroMinDefault ==
    (op \in {"ZERO", "MIN", "default"} /\ Matched) =>
        /\ ret.kind = "value"
        /\ Len(ret.limbs) = LIMBS
        /\ \A i \in 1 .. LIMBS : ret.limbs[i] = U64Zero
        /\ val = Live(ret.limbs)

C8_Witness ==
    /\ op = "default"
    /\ Matched
    /\ LIMBS = 2
    /\ ret.kind = "value"

\* C9: mask(0) = 0; mask(bits) = 2^64 - 1 when bits > 0 and bits mod 64 = 0;
\* mask(bits) = 2^r - 1 when bits mod 64 = r # 0; the computation never
\* overflows; for bits > 0 the mask has exactly ((bits - 1) mod 64) + 1 low
\* bits set and no others.
C9_MaskValue ==
    (fn = "mask") =>
        /\ fn_ret.ok
        /\ bits = 0 => fn_ret.v = {}
        /\ (bits > 0 /\ bits % 64 = 0) => fn_ret.v = U64Max
        /\ bits % 64 # 0 => fn_ret.v = 0 .. ((bits % 64) - 1)
        /\ bits > 0 => /\ fn_ret.v = SpecMask(bits)
                       /\ Cardinality(fn_ret.v) = ((bits - 1) % 64) + 1

C9_Witness ==
    /\ fn = "mask"
    /\ bits > 0
    /\ bits % 64 = 0
    /\ fn_ret = OkU64(U64Max)

\* The read limbs[Self::LIMBS - 1] of from_limbs is reached.
ReadReached == assert_valid = "" /\ BITS > 0

\* C10: in from_limbs the read of limbs[nlimbs(BITS) - 1] is reached only
\* when BITS > 0 and LIMBS = nlimbs(BITS), its index is then within
\* 0 .. LIMBS-1 and the subtraction does not underflow; a pair with
\* LIMBS # ceil(BITS/64) always fails with the limb-count error, never with
\* the value error or an out-of-range access.
C10_ReadInRange ==
    (op = "from_limbs") =>
        /\ ReadReached =>
              /\ Matched
              /\ TopIndex.ok
              /\ SelfLIMBS.v - 1 \in 0 .. (LIMBS - 1)
              /\ TopIndex.v \in 0 .. (LIMBS - 1)
        /\ ret.msg \notin {MsgIndex, MsgSub}
        /\ ~Matched => ret = Panic(MsgLimbs)

====
